---- MODULE Spec2Model ----
(***************************************************************************)
(* Central air-conditioning scheduler of the hotel back end                *)
(* (ac_core/scheduler.py, server.py, queues.py, timers.py, records.py).    *)
(*                                                                         *)
(* Temperatures and money are integers in units of 1/10000 (Scale per      *)
(* degree / per yuan): 30.0 degrees is 300000, the tolerance 0.005 is 50.  *)
(* The engine's per-second rates 1/60, 0.5/60 and (1/3)/60 are the         *)
(* integers 167, 83 and 56; _normalize_temp rounds them to three decimals  *)
(* exactly as Decimal.quantize(ROUND_HALF_UP) does (17, 8 and 6 mill).     *)
(***************************************************************************)
EXTENDS Integers, Sequences, FiniteSets, TLC

\* ---------------------------------------------------------------- bounds
NumRooms == 3
MaxOps == 3
MaxTicks == 1
WideOps == 4
WideTicks == 2
CoolTicks == 600
FineOps == 2
FineTicks == 1
ResumeOps == 2
ResumeTicks == 121
MinuteOps == 1
MinuteTicks == 60
MaxServiceTime == 1
ThreadOps == 2
ThreadTicks == 1
SliceRooms == 4
SliceOps == 6
SliceTicks == 2
FrozenOps == 2
FrozenTicks == 60
LowerOps == 6
LowerTicks == 1
FairOps == 3
FairTicks == 6
MissingOps == 3
MissingTicks == 2
ReachOps == 2
ReachTicks == 160
ReachStart == 60
ReachRooms == 1

\* ------------------------------------------------------------- constants
Scale == 10000
LOW == 1
MEDIUM == 2
HIGH == 3
FanSpeeds == {LOW, MEDIUM, HIGH}
Modes == {"cool", "heat"}
DEFAULT_TEMP == 25 * Scale

InitialTemp(i) ==
    CASE i = 1 -> 32 * Scale
      [] i = 2 -> 28 * Scale
      [] i = 3 -> 30 * Scale
      [] i = 4 -> 29 * Scale
      [] i = 5 -> 35 * Scale
      [] OTHER -> DEFAULT_TEMP

\* ------------------------------------------------------------ arithmetic
Abs(x) == IF x < 0 THEN -x ELSE x

\* Decimal(str(value)).quantize(10^-ndigits, ROUND_HALF_UP): q is the
\* quantum in model units (10 for three decimals); ties go away from zero.
NormalizeQ(value, q) ==
    LET a == Abs(value)
        lo == (a \div q) * q
        r == IF 2 * (a - lo) >= q THEN lo + q ELSE lo
    IN IF value < 0 THEN -r ELSE r

NormalizeTemp(value) == NormalizeQ(value, 10)

\* Python round(x, n) on a float: the nearest multiple of the quantum q;
\* at an exact decimal tie the binary representation of the float decides,
\* so both neighbours are possible outcomes.
PyRound(x, q) ==
    LET lo == x - (x % q)
        r == x % q
    IN IF 2 * r < q THEN {lo}
       ELSE IF 2 * r > q THEN {lo + q}
       ELSE {lo, lo + q}

\* ------------------------------------------------- maps with dict shape
EmptyMap == [k \in {} |-> 0]
Put(f, k, v) == [x \in (DOMAIN f) \cup {k} |-> IF x = k THEN v ELSE f[x]]
Drop(f, k) == [x \in (DOMAIN f) \ {k} |-> f[x]]

SeqSet(s) == {s[i] : i \in 1..Len(s)}
Contains(s, x) == x \in SeqSet(s)
Remove(s, x) == SelectSeq(s, LAMBDA y : y # x)
IndexOf(s, x) == CHOOSE i \in 1..Len(s) : s[i] = x /\ \A j \in 1..(i - 1) : s[j] # x

\* Tuple comparison of Python sort keys (two components).
KeyLess(a, b) == a[1] < b[1] \/ (a[1] = b[1] /\ a[2] < b[2])

\* list.sort(key=...) is stable: an element goes after the elements whose
\* key is not greater than its own.
InsertSorted(sorted, x, key) ==
    LET later == {i \in 1..Len(sorted) : KeyLess(key[x], key[sorted[i]])}
        pos == IF later = {} THEN Len(sorted) + 1
               ELSE CHOOSE i \in later : \A j \in later : i <= j
    IN SubSeq(sorted, 1, pos - 1) \o <<x>> \o SubSeq(sorted, pos, Len(sorted))

RECURSIVE StableSort(_, _)
StableSort(s, key) ==
    IF s = <<>> THEN <<>>
    ELSE InsertSorted(StableSort(SubSeq(s, 1, Len(s) - 1), key), s[Len(s)], key)

\* max(list, key=...) and min(list, key=...): the first extreme element.
FirstMax(s, key) ==
    s[CHOOSE i \in 1..Len(s) :
        /\ \A j \in 1..Len(s) : ~KeyLess(key[s[i]], key[s[j]])
        /\ \A j \in 1..(i - 1) : KeyLess(key[s[j]], key[s[i]])]

FirstMin(s, key) ==
    s[CHOOSE i \in 1..Len(s) :
        /\ \A j \in 1..Len(s) : ~KeyLess(key[s[j]], key[s[i]])
        /\ \A j \in 1..(i - 1) : KeyLess(key[s[i]], key[s[j]])]

\* One statement after another: Step runs on the state S has become.
Then(S, Step(_)) == Step(S)

\* ------------------------------------------------------------------ state
VARIABLES rooms, served, waiting, service_timer, wait_timer, records,
          current_record_ids, accumulated_seconds, minute_start_temps,
          served_capacity, waiting_capacity, time_slice,
          max_ops, max_ticks, nops, clock, last, tick_frame

vars == <<rooms, served, waiting, service_timer, wait_timer, records,
          current_record_ids, accumulated_seconds, minute_start_temps,
          served_capacity, waiting_capacity, time_slice,
          max_ops, max_ticks, nops, clock, last, tick_frame>>

\* RoomRepository.rooms: the ids of the rooms the system was built with.
Rooms == DOMAIN rooms

\* The locals of the handler that ran last: which entry point, on which
\* room, with which temperature or fan speed (arg), the serving room it displaced (victim), the waiting room it
\* admitted by a swap (selected), the waiting room it evicted to paused,
\* the room the refill promoted (filled), what the handler returned (ret:
\* the "state" of the returned dict, or "SOk"; number: its "list_number",
\* 0 when the dict has none), and for a tick the two queues as
\* _time_slice_schedule found them, each room with its fan speed and timer.
NoSnap == [served |-> <<>>, waiting |-> <<>>]
NoTrace == [op |-> "init", room |-> 0, arg |-> 0, victim |-> 0, selected |-> 0,
            evicted |-> 0, filled |-> 0, ret |-> "", number |-> 0,
            snap |-> NoSnap]

\* The scheduler and everything it owns, as one value.
State == [rooms |-> rooms, served |-> served, waiting |-> waiting,
          service_timer |-> service_timer, wait_timer |-> wait_timer,
          records |-> records, current_record_ids |-> current_record_ids,
          accumulated_seconds |-> accumulated_seconds,
          minute_start_temps |-> minute_start_temps,
          served_capacity |-> served_capacity,
          waiting_capacity |-> waiting_capacity,
          time_slice |-> time_slice,
          tr |-> NoTrace]

\* The tick a request handler thread is in the middle of: where it stands
\* (pc), the before_states it took (line 449), and, to compare the tick with
\* a serial execution, the scheduler as the tick found it and the calls
\* that other threads made since.
NoFrame == [pc |-> "idle", before_states |-> <<>>, start |-> <<>>, calls |-> <<>>]

Settles(T) ==
    /\ rooms' = T.rooms
    /\ served' = T.served
    /\ waiting' = T.waiting
    /\ service_timer' = T.service_timer
    /\ wait_timer' = T.wait_timer
    /\ records' = T.records
    /\ current_record_ids' = T.current_record_ids
    /\ accumulated_seconds' = T.accumulated_seconds
    /\ minute_start_temps' = T.minute_start_temps
    /\ last' = T.tr
    /\ UNCHANGED <<served_capacity, waiting_capacity, time_slice,
                   max_ops, max_ticks>>

\* A handler that runs while no tick is under way.
Becomes(T) ==
    /\ Settles(T)
    /\ UNCHANGED tick_frame

Room(i) == [current_temp |-> InitialTemp(i), mode |-> "cool",
            target_temp |-> DEFAULT_TEMP, fan_speed |-> MEDIUM,
            state |-> "off", cost |-> 0]

\* HotelACSystem(room_count, served_capacity, waiting_capacity,
\* time_slice_seconds) right after construction.
ConstructedWith(room_count, sc, wc, ts) ==
    /\ served_capacity = sc
    /\ waiting_capacity = wc
    /\ time_slice = ts
    /\ rooms = [i \in 1..room_count |-> Room(i)]
    /\ served = <<>>
    /\ waiting = <<>>
    /\ service_timer = EmptyMap
    /\ wait_timer = EmptyMap
    /\ records = <<>>
    /\ current_record_ids = EmptyMap
    /\ accumulated_seconds = 0
    /\ minute_start_temps = EmptyMap
    /\ nops = 0
    /\ clock = 0
    /\ last = NoTrace
    /\ tick_frame = NoFrame

Constructed(sc, wc, ts) == ConstructedWith(NumRooms, sc, wc, ts)

\* How many requests and how many seconds a run is followed for.
Horizon(ops, ticks) ==
    /\ max_ops = ops
    /\ max_ticks = ticks

\* ----------------------------------------------------------------- timers
GetServiceTime(S, room_id) ==
    IF room_id \in DOMAIN S.service_timer THEN S.service_timer[room_id] ELSE 0

GetWaitTime(S, room_id) ==
    IF room_id \in DOMAIN S.wait_timer THEN S.wait_timer[room_id] ELSE 0

ServiceResetTimer(S, room_id) ==
    [S EXCEPT !.service_timer = Put(@, room_id, 0)]

ServiceRemoveTimer(S, room_id) ==
    [S EXCEPT !.service_timer = Drop(@, room_id)]

WaitCreateTimer(S, room_id) ==
    [S EXCEPT !.wait_timer = Put(@, room_id, 0)]

WaitResetTimer(S, room_id) ==
    [S EXCEPT !.wait_timer = Put(@, room_id, 0)]

\* self.wait_timer._waiting_seconds.pop(room_id, None)
WaitDropTimer(S, room_id) ==
    [S EXCEPT !.wait_timer = Drop(@, room_id)]

TimerTick(t) == [k \in DOMAIN t |-> t[k] + 1]

\* ----------------------------------------------------------------- queues
ServedSortKey(S) ==
    [rid \in Rooms |-> <<-S.rooms[rid].fan_speed, -GetServiceTime(S, rid)>>]

WaitingSortKey(S) ==
    [rid \in Rooms |-> <<-S.rooms[rid].fan_speed, -GetWaitTime(S, rid)>>]

ServedSortRooms(S) == [S EXCEPT !.served = StableSort(@, ServedSortKey(S))]

WaitingSortRooms(S) == [S EXCEPT !.waiting = StableSort(@, WaitingSortKey(S))]

HasSlot(S) == Len(S.served) < S.served_capacity

\* A push that appends and does not sort.
ServedPushUnsorted(S, room_id) ==
    IF ~Contains(S.served, room_id) /\ Len(S.served) < S.served_capacity
    THEN [S EXCEPT !.served = Append(@, room_id)]
    ELSE S

ServedPush(S, room_id) ==
    IF ~Contains(S.served, room_id) /\ Len(S.served) < S.served_capacity
    THEN ServedSortRooms([S EXCEPT !.served = Append(@, room_id)])
    ELSE S

ServedPop(S, room_id) ==
    IF Contains(S.served, room_id)
    THEN ServedSortRooms([S EXCEPT !.served = Remove(@, room_id)])
    ELSE S

WaitingHasRoom(S) == S.waiting_capacity = -1 \/ Len(S.waiting) < S.waiting_capacity

\* A push that ignores the capacity of the waiting queue.
WaitingPushUnbounded(S, room_id) ==
    IF ~Contains(S.waiting, room_id)
    THEN WaitingSortRooms([S EXCEPT !.waiting = Append(@, room_id)])
    ELSE S

WaitingPush(S, room_id) ==
    IF ~Contains(S.waiting, room_id) /\ WaitingHasRoom(S)
    THEN WaitingSortRooms([S EXCEPT !.waiting = Append(@, room_id)])
    ELSE S

WaitingPop(S, room_id) ==
    IF Contains(S.waiting, room_id)
    THEN [S EXCEPT !.waiting = Remove(@, room_id)]
    ELSE S

WaitingPromote(S, room_id) ==
    IF Contains(S.waiting, room_id)
    THEN WaitingSortRooms([S EXCEPT !.waiting = <<room_id>> \o Remove(@, room_id)])
    ELSE S

\* ---------------------------------------------------------------- journal
CreateRecord(S, room_id, operation_type) ==
    [S EXCEPT !.records = Append(@, [room_id |-> room_id, cost |-> 0,
                                     ended |-> FALSE,
                                     operation_type |-> operation_type])]

\* The id create_record returned: AUTOINCREMENT ids are list positions.
LastRecordId(S) == Len(S.records)

\* current_record_ids[room_id] = the id create_record just returned.
TrackLastRecord(S, room_id) ==
    [S EXCEPT !.current_record_ids = Put(@, room_id, LastRecordId(S))]

UpdateOnService(S, record_id, cost, end) ==
    IF record_id \in 1..Len(S.records)
    THEN [S EXCEPT !.records[record_id] =
              [@ EXCEPT !.cost = cost, !.ended = IF end THEN TRUE ELSE @]]
    ELSE S

RECURSIVE SumCost(_, _)
SumCost(recs, room_id) ==
    IF recs = <<>> THEN 0
    ELSE (IF recs[Len(recs)].room_id = room_id THEN recs[Len(recs)].cost ELSE 0)
         + SumCost(SubSeq(recs, 1, Len(recs) - 1), room_id)

\* get_room_total: round(SUM(cost), 2); a set because of rounding ties.
GetRoomTotal(S, room_id) == PyRound(SumCost(S.records, room_id), 100)

\* ----------------------------------------------------------------- server
CalcFeeRate(fan_speed) == 1

\* set_target without the reset of the fan speed.
SetTargetKeepSpeed(S, room_id, current_room_temp, mode) ==
    [S EXCEPT !.rooms[room_id] =
        [@ EXCEPT !.current_temp = NormalizeTemp(current_room_temp),
                  !.mode = mode,
                  !.target_temp = 25 * Scale,
                  !.state = "serving"]]

SetTarget(S, room_id, current_room_temp, mode) ==
    [S EXCEPT !.rooms[room_id] =
        [@ EXCEPT !.current_temp = NormalizeTemp(current_room_temp),
                  !.mode = mode,
                  !.target_temp = 25 * Scale,
                  !.fan_speed = MEDIUM,
                  !.state = "serving"]]

UpdateSpeed(S, room_id, new_speed) ==
    [S EXCEPT !.rooms[room_id].fan_speed = new_speed]

UpdateTargetTemperature(S, room_id, new_target_temp) ==
    [S EXCEPT !.rooms[room_id].target_temp = NormalizeTemp(new_target_temp)]

\* -------------------------------------------------------------- scheduler
SpeedKey(S) == [rid \in Rooms |-> <<S.rooms[rid].fan_speed, 0>>]
ServiceTimeKey(S) == [rid \in Rooms |-> <<GetServiceTime(S, rid), 0>>]
WaitTimeKey(S) == [rid \in Rooms |-> <<GetWaitTime(S, rid), 0>>]

SpeedsOf(S, s) == {S.rooms[s[i]].fan_speed : i \in 1..Len(s)}

\* The victim of a priority replacement in power_on (lines 102-109).
PowerOnVictim(S, replaceable_rooms) ==
    IF Cardinality(SpeedsOf(S, replaceable_rooms)) = 1
    THEN FirstMax(replaceable_rooms, ServiceTimeKey(S))
    ELSE FirstMin(replaceable_rooms, SpeedKey(S))

PowerOnServe(S, room_id, current_room_temp, mode, operation_type) ==
    [TrackLastRecord(
         CreateRecord(
             ServiceResetTimer(
                 SetTarget(ServedPush(S, room_id), room_id, current_room_temp, mode),
                 room_id),
             room_id, operation_type),
         room_id)
     EXCEPT !.tr.ret = "serving"]

PowerOnReplace(S, room_id, current_room_temp, mode, victim) ==
    LET S1 == ServedPop(S, victim)
        S2 == [S1 EXCEPT !.rooms[victim].state = "waiting"]
        S3 == ServiceRemoveTimer(S2, victim)
        S4 == WaitingPush(S3, victim)
        S5 == WaitCreateTimer(S4, victim)
        S6 == [S5 EXCEPT !.tr.victim = victim]
    IN PowerOnServe(S6, room_id, current_room_temp, mode, "PRIORITY_REPLACE")

PowerOnWait(S, room_id, current_room_temp, mode) ==
    LET S1 == WaitingPush(S, room_id)
        S2 == WaitCreateTimer(S1, room_id)
    IN [S2 EXCEPT !.rooms[room_id] =
                      [@ EXCEPT !.state = "waiting",
                                !.current_temp = current_room_temp,
                                !.mode = mode],
                  !.tr.ret = "waiting"]

\* power_on with a victim sought among the serving rooms that are not
\* faster than the requester (<= where the code has <).
PowerOnAtMost(S, room_id, current_room_temp, mode) ==
    IF HasSlot(S)
    THEN PowerOnServe(S, room_id, current_room_temp, mode, "POWER_ON")
    ELSE LET new_room_speed == S.rooms[room_id].fan_speed
             lower_speed_rooms ==
                 SelectSeq(S.served,
                           LAMBDA rid : S.rooms[rid].fan_speed <= new_room_speed)
         IN IF lower_speed_rooms # <<>>
            THEN PowerOnReplace(S, room_id, current_room_temp, mode,
                                PowerOnVictim(S, lower_speed_rooms))
            ELSE PowerOnWait(S, room_id, current_room_temp, mode)

power_on(S, room_id, current_room_temp, mode) ==
    IF HasSlot(S)
    THEN PowerOnServe(S, room_id, current_room_temp, mode, "POWER_ON")
    ELSE LET new_room_speed == S.rooms[room_id].fan_speed
             lower_speed_rooms ==
                 SelectSeq(S.served,
                           LAMBDA rid : S.rooms[rid].fan_speed < new_room_speed)
         IN IF lower_speed_rooms # <<>>
            THEN PowerOnReplace(S, room_id, current_room_temp, mode,
                                PowerOnVictim(S, lower_speed_rooms))
            ELSE PowerOnWait(S, room_id, current_room_temp, mode)

SpeedWaitKey(S) ==
    [rid \in Rooms |-> <<S.rooms[rid].fan_speed, GetWaitTime(S, rid)>>]

SpeedServiceKey(S) ==
    [rid \in Rooms |-> <<S.rooms[rid].fan_speed, GetServiceTime(S, rid)>>]

\* Lines 300-310 and 724-734: a full bounded waiting queue gives up its
\* lowest-priority room, which becomes paused.
EvictLowestWaiting(S, victim) ==
    IF /\ S.waiting_capacity # -1
       /\ Len(S.waiting) >= S.waiting_capacity
       /\ ~Contains(S.waiting, victim)
       /\ Len(S.waiting) > 0
    THEN LET lowest_priority_room == FirstMin(S.waiting, SpeedWaitKey(S))
             S1 == WaitingPop(S, lowest_priority_room)
             S2 == [S1 EXCEPT !.rooms[lowest_priority_room].state = "paused"]
             S3 == WaitDropTimer(S2, lowest_priority_room)
         IN [S3 EXCEPT !.tr.evicted = lowest_priority_room]
    ELSE S

\* Lines 312-317 and 736-741.
RequeueVictim(S, victim) ==
    Then(IF Contains(S.waiting, victim) THEN WaitingPop(S, victim) ELSE S, LAMBDA S1 :
    IF WaitingHasRoom(S1) THEN WaitingPush(S1, victim) ELSE S1)

_replace_served_with_waiting(S, victim, waiting_room) ==
    Then(ServiceRemoveTimer(
             [RequeueVictim(EvictLowestWaiting(ServedPop(S, victim), victim), victim)
                 EXCEPT !.rooms[victim].state = "waiting"],
             victim), LAMBDA S5 :
    Then(IF GetWaitTime(S5, victim) = 0 THEN WaitCreateTimer(S5, victim) ELSE S5, LAMBDA S6 :
    Then([S6 EXCEPT !.tr.victim = victim], LAMBDA S7 :
    IF HasSlot(S7)
    THEN LET T1 == WaitingPop(S7, waiting_room)
             T2 == ServedPush(T1, waiting_room)
             T3 == [T2 EXCEPT !.rooms[waiting_room].state = "serving"]
             T4 == ServiceResetTimer(T3, waiting_room)
             T5 == WaitDropTimer(T4, waiting_room)
         IN [T5 EXCEPT !.tr.selected = waiting_room]
    ELSE S7)))

_priority_schedule(S, room_id) ==
    CreateRecord(ServedSortRooms(S), room_id, "SPEED_ADJUST_PRIORITY")

_check_waiting_queue_after_speed_decrease(S, room_id) ==
    IF Len(S.served) >= S.served_capacity /\ S.waiting # <<>>
    THEN LET lowest_priority_served == FirstMin(S.served, SpeedServiceKey(S))
             highest_priority_waiting == FirstMax(S.waiting, WaitTimeKey(S))
             waiting_time == GetWaitTime(S, highest_priority_waiting)
             served_priority == S.rooms[lowest_priority_served].fan_speed
             waiting_priority == S.rooms[highest_priority_waiting].fan_speed
         IN IF waiting_time >= S.time_slice /\ waiting_priority > served_priority
            THEN _replace_served_with_waiting(S, lowest_priority_served,
                                              highest_priority_waiting)
            ELSE S
    ELSE S

\* Lines 167-189: close the tracked record and open a SPEED_CHANGE one.
SpeedChangeRecord(S, room_id) ==
    IF room_id \in DOMAIN S.current_record_ids
    THEN LET record_id == S.current_record_ids[room_id]
             S1 == IF record_id \in 1..Len(S.records)
                   THEN UpdateOnService(S, record_id, S.records[record_id].cost, TRUE)
                   ELSE S
         IN TrackLastRecord(CreateRecord(S1, room_id, "SPEED_CHANGE"), room_id)
    ELSE S

\* The victim of a waiting room that changed its speed (lines 211-222).
AdjustVictim(S, lower_speed_rooms) ==
    IF Len(lower_speed_rooms) = 1 THEN lower_speed_rooms[1]
    ELSE IF Cardinality(SpeedsOf(S, lower_speed_rooms)) = 1
         THEN FirstMax(lower_speed_rooms, ServiceTimeKey(S))
         ELSE FirstMin(lower_speed_rooms, SpeedKey(S))

adjust_wind_speed(S, room_id, new_speed) ==
    LET old_speed == S.rooms[room_id].fan_speed
        S0 == [S EXCEPT !.rooms[room_id].fan_speed = new_speed,
                        !.tr.ret = IF Contains(S.served, room_id)
                                      \/ Contains(S.waiting, room_id)
                                   THEN "SOk" ELSE S.rooms[room_id].state]
    IN IF Contains(S0.served, room_id)
       THEN Then(UpdateSpeed(ServedSortRooms(S0), room_id, new_speed), LAMBDA S1 :
            Then(IF old_speed # new_speed THEN SpeedChangeRecord(S1, room_id) ELSE S1,
                 LAMBDA S2 :
            IF new_speed > old_speed THEN _priority_schedule(S2, room_id)
            ELSE IF new_speed < old_speed
                 THEN _check_waiting_queue_after_speed_decrease(S2, room_id)
                 ELSE S2))
       ELSE IF Contains(S0.waiting, room_id)
       THEN Then(IF new_speed > old_speed
                 THEN WaitResetTimer(WaitingPromote(S0, room_id), room_id)
                 ELSE S0, LAMBDA S1 :
            LET lower_speed_rooms ==
                    SelectSeq(S1.served,
                              LAMBDA rid : S1.rooms[rid].fan_speed < new_speed)
            IN IF lower_speed_rooms # <<>>
               THEN UpdateSpeed(
                        _replace_served_with_waiting(
                            S1, AdjustVictim(S1, lower_speed_rooms), room_id),
                        room_id, new_speed)
               ELSE S1)
       ELSE S0

adjust_temperature(S, room_id, new_target_temp) ==
    IF Contains(S.served, room_id)
    THEN CreateRecord(UpdateTargetTemperature([S EXCEPT !.tr.ret = "SOk"],
                                              room_id, new_target_temp),
                      room_id, "TEMP_CHANGE")
    ELSE IF Contains(S.waiting, room_id) \/ S.rooms[room_id].state = "paused"
    THEN CreateRecord([S EXCEPT !.rooms[room_id].target_temp = new_target_temp,
                                !.tr.ret = "SOk"],
                      room_id, "TEMP_CHANGE")
    ELSE [S EXCEPT !.tr.ret = S.rooms[room_id].state]

\* power_off; a set of outcomes because the closing cost is the rounded
\* room total.
power_off(S, room_id) ==
    Then(IF Contains(S.served, room_id)
         THEN ServiceRemoveTimer(ServedPop(S, room_id), room_id)
         ELSE S, LAMBDA S1 :
    Then(IF Contains(S1.waiting, room_id)
         THEN WaitDropTimer(WaitingPop(S1, room_id), room_id)
         ELSE S1, LAMBDA S2 :
    Then([S2 EXCEPT !.rooms[room_id].state = "off", !.tr.ret = "off"], LAMBDA S3 :
    IF room_id \in DOMAIN S3.current_record_ids
    THEN LET record_id == S3.current_record_ids[room_id]
             S4 == [S3 EXCEPT !.current_record_ids = Drop(@, room_id)]
         IN {UpdateOnService(S4, record_id, total, TRUE) :
                 total \in GetRoomTotal(S4, room_id)}
    ELSE {S3})))

\* ---------------------------------------------------------------- queries
\* WaitingQueue.get_position: list.index(room_id) + 1, or -1.
get_position(S, room_id) ==
    IF Contains(S.waiting, room_id) THEN IndexOf(S.waiting, room_id) ELSE -1

request_number_service_number(S, room_id) ==
    IF Contains(S.waiting, room_id)
    THEN [S EXCEPT !.tr.ret = "wait",
                   !.tr.number = get_position(S, room_id) + 1]
    ELSE [S EXCEPT !.tr.ret = S.rooms[room_id].state]

\* ------------------------------------------------------- refill, callback
_fill_served_queue_from_waiting(S) ==
    IF Len(S.served) >= S.served_capacity THEN S
    ELSE IF S.waiting = <<>> THEN S
    ELSE LET selected == S.waiting[1]
             S1 == ServedPush(WaitingPop(S, selected), selected)
             S2 == [S1 EXCEPT !.rooms[selected].state = "serving"]
             S3 == WaitDropTimer(ServiceResetTimer(S2, selected), selected)
             S4 == TrackLastRecord(CreateRecord(S3, selected, "QUEUE_FILL"), selected)
         IN [S4 EXCEPT !.tr.filled = selected]

\* Lines 528-554 and 625-649: a room that left serving leaves the serving
\* queue, loses its service timer and has its tracked record closed.
LeaveService(S, room_id, after_state) ==
    Then(IF Contains(S.served, room_id)
         THEN ServiceRemoveTimer(ServedPop(S, room_id), room_id)
         ELSE S, LAMBDA S1 :
    Then(IF after_state = "paused" /\ Contains(S1.waiting, room_id)
         THEN WaitingPop(S1, room_id)
         ELSE S1, LAMBDA S2 :
    IF room_id \in DOMAIN S2.current_record_ids
    THEN LET record_id == S2.current_record_ids[room_id]
             S3 == IF record_id \in 1..Len(S2.records)
                   THEN UpdateOnService(S2, record_id, S2.records[record_id].cost, TRUE)
                   ELSE S2
         IN [S3 EXCEPT !.current_record_ids = Drop(@, room_id)]
    ELSE S2))

\* The engine assigns room.state before it calls back, so old_state is
\* read from the room as the engine left it.
_on_room_state_changed(S, room_id, new_state) ==
    LET old_state == S.rooms[room_id].state
        state_changed == old_state = "serving" /\ new_state \in {"paused", "off"}
    IN Then([(IF state_changed THEN LeaveService(S, room_id, new_state) ELSE S)
                EXCEPT !.rooms[room_id].state = new_state], LAMBDA S2 :
       IF state_changed
       THEN _fill_served_queue_from_waiting(ServedSortRooms(S2))
       ELSE S2)

\* ----------------------------------------------------------------- engine
\* A rate that the normalisation to three decimals rounds away.
TempRateRoundedAway(fan_speed) == 4

TempRatePerSec(fan_speed) ==
    IF fan_speed = HIGH THEN 167
    ELSE IF fan_speed = MEDIUM THEN 83
    ELSE 56

DriftRatePerSec == 83
temp_tolerance == 50
threshold_tolerance == 10

SetTemp(S, room_id, t) == [S EXCEPT !.rooms[room_id].current_temp = t]

Pause(S, room_id) ==
    _on_room_state_changed([S EXCEPT !.rooms[room_id].state = "paused"],
                           room_id, "paused")

\* Lines 293-300, reached from the serving branch only.
TailAlign(S, room_id) ==
    LET room == S.rooms[room_id]
    IN IF /\ room.state \in {"serving", "paused"}
          /\ Abs(room.current_temp - room.target_temp) < temp_tolerance
       THEN SetTemp(S, room_id, NormalizeTemp(room.target_temp))
       ELSE S

\* dir is -1 when the mode pulls the temperature down (cool), +1 for heat.
UpdateServing(S, room_id, dir) ==
    LET room == S.rooms[room_id]
        rate == TempRatePerSec(room.fan_speed)
        target == room.target_temp
        temp_diff == room.current_temp - target
    IN IF Abs(temp_diff) <= temp_tolerance
       THEN [S |-> TailAlign(Pause(SetTemp(S, room_id, NormalizeTemp(target)), room_id),
                             room_id),
             cost |-> NormalizeTemp(0)]
       ELSE IF dir * (target - room.current_temp) > 0
       THEN LET moved == NormalizeTemp(room.current_temp + dir * rate)
                reached == Abs(moved - target) <= temp_tolerance
                           \/ dir * (target - moved) <= 0
            IN [S |-> TailAlign(
                          IF reached
                          THEN Pause(SetTemp(S, room_id, NormalizeTemp(target)), room_id)
                          ELSE SetTemp(S, room_id, moved),
                          room_id),
                cost |-> NormalizeTemp(rate)]
       ELSE LET moved == NormalizeTemp(room.current_temp - dir * DriftRatePerSec)
                reached == Abs(moved - target) <= temp_tolerance
                           \/ dir * (target - moved) >= 0
            IN [S |-> SetTemp(Pause(S, room_id), room_id,
                              IF reached THEN NormalizeTemp(target) ELSE moved),
                cost |-> 0]

UpdatePaused(S, room_id, dir) ==
    LET room == S.rooms[room_id]
        moved == NormalizeTemp(room.current_temp - dir * DriftRatePerSec)
        threshold_temp == room.target_temp - dir * Scale
        reached == dir * (threshold_temp - moved) >= -threshold_tolerance
    IN IF reached
       THEN [S |-> Then([SetTemp(S, room_id, moved)
                            EXCEPT !.rooms[room_id].state = "waiting"], LAMBDA S2 :
                   Then(IF Contains(S2.served, room_id)
                        THEN ServedPop(S2, room_id)
                        ELSE S2, LAMBDA S3 :
                   IF ~Contains(S3.waiting, room_id)
                   THEN WaitResetTimer(WaitingPush(S3, room_id), room_id)
                   ELSE S3)),
             cost |-> 0]
       ELSE [S |-> SetTemp(S, room_id, moved), cost |-> 0]

UpdateOff(S, room_id) ==
    LET room == S.rooms[room_id]
        initial == InitialTemp(room_id)
        temp_diff == room.current_temp - initial
        dir == IF room.current_temp < initial THEN 1 ELSE -1
        moved == NormalizeTemp(room.current_temp + dir * DriftRatePerSec)
    IN IF Abs(temp_diff) <= temp_tolerance
       THEN [S |-> SetTemp(S, room_id, NormalizeTemp(initial)), cost |-> 0]
       ELSE IF Abs(moved - initial) <= temp_tolerance \/ dir * (initial - moved) <= 0
       THEN [S |-> SetTemp(S, room_id, NormalizeTemp(initial)), cost |-> 0]
       ELSE [S |-> SetTemp(S, room_id, moved), cost |-> 0]

\* An engine under which a waiting room drifts as a paused one does.
UpdateTemperatureWaitingDrifts(S, room_id) ==
    Then(SetTemp(S, room_id, NormalizeTemp(S.rooms[room_id].current_temp)), LAMBDA S0 :
    LET room == S0.rooms[room_id]
        dir == IF room.mode = "cool" THEN -1 ELSE 1
    IN CASE room.state = "serving" -> UpdateServing(S0, room_id, dir)
         [] room.state \in {"paused", "waiting"} -> UpdatePaused(S0, room_id, dir)
         [] OTHER -> UpdateOff(S0, room_id))

update_temperature(S, room_id) ==
    Then(SetTemp(S, room_id, NormalizeTemp(S.rooms[room_id].current_temp)), LAMBDA S0 :
    LET room == S0.rooms[room_id]
        dir == IF room.mode = "cool" THEN -1 ELSE 1
    IN CASE room.state = "serving" -> UpdateServing(S0, room_id, dir)
         [] room.state = "paused" -> UpdatePaused(S0, room_id, dir)
         [] room.state = "waiting" -> [S |-> S0, cost |-> 0]
         [] OTHER -> UpdateOff(S0, room_id))

\* ------------------------------------------------------------------- tick
\* Lines 452-472: one room's second of engine time and its billing.
EngineStep(S, room_id) ==
    Then(update_temperature(S, room_id), LAMBDA R :
    IF R.cost > 0 /\ R.S.rooms[room_id].state = "serving"
    THEN Then([R.S EXCEPT !.rooms[room_id].cost = @ + R.cost], LAMBDA T1 :
         IF room_id \in DOMAIN T1.current_record_ids
            /\ T1.current_record_ids[room_id] \in 1..Len(T1.records)
         THEN UpdateOnService(T1, T1.current_record_ids[room_id],
                  T1.records[T1.current_record_ids[room_id]].cost + R.cost,
                  FALSE)
         ELSE T1)
    ELSE R.S)

RECURSIVE EngineLoop(_, _)
EngineLoop(S, room_id) ==
    IF room_id > Len(S.rooms) THEN S
    ELSE EngineLoop(EngineStep(S, room_id), room_id + 1)

\* The alignment with the cost adjustment applied to a room in any state.
AlignRoomAnyState(S, room_id) ==
    LET room == S.rooms[room_id]
    IN IF room_id \in DOMAIN S.minute_start_temps
       THEN LET start_temp == S.minute_start_temps[room_id]
                temp_change_before == Abs(room.current_temp - start_temp)
            IN UNION {
                 {[S EXCEPT !.rooms[room_id].current_temp = t,
                            !.rooms[room_id].cost = c,
                            !.minute_start_temps = Put(@, room_id, t)] :
                      c \in PyRound(room.cost + Abs(t - start_temp)
                                              - temp_change_before, 100)}
                 : t \in PyRound(room.current_temp, 1000)}
       ELSE {S}

\* Lines 480-523 for one room: the possible outcomes of the roundings.
AlignRoom(S, room_id) ==
    LET room == S.rooms[room_id]
    IN IF room.state = "serving" /\ room_id \in DOMAIN S.minute_start_temps
       THEN LET start_temp == S.minute_start_temps[room_id]
                temp_change_before == Abs(room.current_temp - start_temp)
            IN UNION {
                 LET cost_adjustment == Abs(t - start_temp) - temp_change_before
                 IN UNION {
                      LET S1 == [S EXCEPT !.rooms[room_id].current_temp = t,
                                          !.rooms[room_id].cost = c,
                                          !.minute_start_temps = Put(@, room_id, t)]
                      IN IF room_id \in DOMAIN S1.current_record_ids
                            /\ S1.current_record_ids[room_id] \in 1..Len(S1.records)
                         THEN {UpdateOnService(S1, S1.current_record_ids[room_id], a, FALSE) :
                                 a \in PyRound(S1.records[S1.current_record_ids[room_id]].cost
                                               + cost_adjustment, 100)}
                         ELSE {S1}
                      : c \in PyRound(room.cost + cost_adjustment, 100)}
                 : t \in PyRound(room.current_temp, 1000)}
       ELSE {[S EXCEPT !.rooms[room_id].current_temp = t,
                       !.rooms[room_id].cost = c,
                       !.minute_start_temps = Put(@, room_id, t)] :
                 t \in PyRound(room.current_temp, 1000),
                 c \in PyRound(room.cost, 100)}

RECURSIVE AlignLoop(_, _)
AlignLoop(SS, room_id) ==
    IF room_id > Len(rooms) THEN SS
    ELSE AlignLoop(UNION {AlignRoom(S, room_id) : S \in SS}, room_id + 1)

\* The alignment one second late (> 60 where the code has >= 60).
MinuteAlignLate(S) ==
    LET S1 == [S EXCEPT !.accumulated_seconds = @ + 1]
    IN IF S1.accumulated_seconds > 60
       THEN AlignLoop({[S1 EXCEPT !.accumulated_seconds = 0]}, 1)
       ELSE {S1}

MinuteAlign(S) ==
    LET S1 == [S EXCEPT !.accumulated_seconds = @ + 1]
    IN IF S1.accumulated_seconds >= 60
       THEN AlignLoop({[S1 EXCEPT !.accumulated_seconds = 0]}, 1)
       ELSE {S1}

\* Lines 526-554.
RECURSIVE StateChangeLoop(_, _, _)
StateChangeLoop(S, before_states, room_id) ==
    IF room_id > Len(S.rooms) THEN S
    ELSE LET after_state == S.rooms[room_id].state
             S1 == IF before_states[room_id] = "serving"
                      /\ after_state \in {"paused", "off"}
                   THEN LeaveService(S, room_id, after_state)
                   ELSE S
         IN StateChangeLoop(S1, before_states, room_id + 1)

\* ------------------------------------------------------------- time slice
WaitingPriorityKey(S) ==
    [rid \in Rooms |-> <<IF GetWaitTime(S, rid) >= S.time_slice THEN 1 ELSE 0,
                         GetWaitTime(S, rid)>>]

ServedAt(S, speed) == SelectSeq(S.served, LAMBDA rid : S.rooms[rid].fan_speed = speed)
WaitingAt(S, speed) == SelectSeq(S.waiting, LAMBDA rid : S.rooms[rid].fan_speed = speed)

SliceSelected(S, speed) == FirstMax(WaitingAt(S, speed), WaitingPriorityKey(S))
SliceVictim(S, speed) == FirstMax(ServedAt(S, speed), ServiceTimeKey(S))

\* The speeds at which the scan would rotate if it came to them first.
SliceSpeeds(S) ==
    {speed \in SpeedsOf(S, S.served) :
        /\ WaitingAt(S, speed) # <<>>
        /\ GetWaitTime(S, SliceSelected(S, speed)) >= S.time_slice}

Rotate(S, speed) ==
    LET selected == SliceSelected(S, speed)
        victim == SliceVictim(S, speed)
        S1 == ServedPop(S, victim)
        S2 == EvictLowestWaiting(S1, victim)
        S3 == RequeueVictim(S2, victim)
        S4 == [S3 EXCEPT !.rooms[victim].state = "waiting"]
        S5 == WaitResetTimer(ServiceRemoveTimer(S4, victim), victim)
        S6 == WaitingPop(ServedPush(S5, selected), selected)
        S7 == [S6 EXCEPT !.rooms[selected].state = "serving"]
        S8 == WaitDropTimer(ServiceResetTimer(S7, selected), selected)
    IN [S8 EXCEPT !.tr.victim = victim, !.tr.selected = selected]

\* A scan that goes on after a rotation, through every speed there is.
RECURSIVE RotateEach(_, _)
RotateEach(S, speeds) ==
    IF speeds = {} THEN S
    ELSE LET speed == CHOOSE x \in speeds : TRUE
         IN RotateEach(IF speed \in SliceSpeeds(S) THEN Rotate(S, speed) ELSE S,
                       speeds \ {speed})

TimeSliceWithoutBreak(S) ==
    IF S.waiting = <<>> \/ Len(S.served) < S.served_capacity THEN {S}
    ELSE {RotateEach(S, SpeedsOf(S, S.served))}

\* The set of speeds is iterated in hash order, which differs from run to
\* run; the first speed with an eligible waiting room is rotated.
_time_slice_schedule(S) ==
    IF S.waiting = <<>> \/ Len(S.served) < S.served_capacity THEN {S}
    ELSE IF SliceSpeeds(S) = {} THEN {S}
    ELSE {Rotate(S, speed) : speed \in SliceSpeeds(S)}

\* What _time_slice_schedule reads on entry.
SliceSnapshot(S) ==
    [served |-> [i \in 1..Len(S.served) |->
                    [room |-> S.served[i],
                     speed |-> S.rooms[S.served[i]].fan_speed,
                     time |-> GetServiceTime(S, S.served[i])]],
     waiting |-> [i \in 1..Len(S.waiting) |->
                    [room |-> S.waiting[i],
                     speed |-> S.rooms[S.waiting[i]].fan_speed,
                     time |-> GetWaitTime(S, S.waiting[i])]]]

TimeSliceStep(S) == _time_slice_schedule([S EXCEPT !.tr.snap = SliceSnapshot(S)])

\* Lines 436-446: the timers advance, the serving queue is sorted, the
\* first second of a minute notes every room's temperature.
TimerPhase(S) ==
    Then(ServedSortRooms([S EXCEPT !.service_timer = TimerTick(@),
                                   !.wait_timer = TimerTick(@)]), LAMBDA S1 :
    IF S1.accumulated_seconds = 0
    THEN [S1 EXCEPT !.minute_start_temps =
                        [rid \in Rooms |-> S1.rooms[rid].current_temp]]
    ELSE S1)

\* Line 449.
BeforeStates(S) == [rid \in Rooms |-> S.rooms[rid].state]

\* Lines 451-523: the engine and the minute alignment.
EnginePhase(S) == MinuteAlign(EngineLoop(S, 1))

\* Lines 526-561: the state-change pass, the refill and the rotation.
RebalancePhase(S, before_states) ==
    TimeSliceStep(
        _fill_served_queue_from_waiting(StateChangeLoop(S, before_states, 1)))

_tick_one_second(S) ==
    Then(TimerPhase(S), LAMBDA S2 :
    UNION {RebalancePhase(S4, BeforeStates(S2)) : S4 \in EnginePhase(S2)})

\* ---------------------------------------------------------------- actions
PowerOnTemps == {30 * Scale, 25 * Scale + 100}
TargetTemps == {22 * Scale}

Begin(op, room_id) == [State EXCEPT !.tr.op = op, !.tr.room = room_id]
BeginWith(op, room_id, arg) == [Begin(op, room_id) EXCEPT !.tr.arg = arg]

PowerOn(room_id, current_room_temp, mode) ==
    /\ nops < max_ops
    /\ Becomes(power_on(BeginWith("power_on", room_id, current_room_temp),
                        room_id, current_room_temp, mode))
    /\ nops' = nops + 1
    /\ UNCHANGED clock

PowerOff(room_id) ==
    /\ nops < max_ops
    /\ \E T \in power_off(Begin("power_off", room_id), room_id) : Becomes(T)
    /\ nops' = nops + 1
    /\ UNCHANGED clock

AdjustWindSpeed(room_id, new_speed) ==
    /\ nops < max_ops
    /\ Becomes(adjust_wind_speed(BeginWith("adjust_wind_speed", room_id, new_speed),
                                 room_id, new_speed))
    /\ nops' = nops + 1
    /\ UNCHANGED clock

AdjustTemperature(room_id, new_target_temp) ==
    /\ nops < max_ops
    /\ Becomes(adjust_temperature(
                   BeginWith("adjust_temperature", room_id, new_target_temp),
                   room_id, new_target_temp))
    /\ nops' = nops + 1
    /\ UNCHANGED clock

Tick ==
    /\ clock < max_ticks
    /\ \E T \in _tick_one_second(Begin("tick", 0)) : Becomes(T)
    /\ clock' = clock + 1
    /\ UNCHANGED nops

\* A status read: it changes nothing the scheduler owns.
RequestNumberServiceNumber(room_id) ==
    /\ Becomes(request_number_service_number(
                   Begin("request_number_service_number", room_id), room_id))
    /\ UNCHANGED <<nops, clock>>

\* The (served_capacity, waiting_capacity, time_slice_seconds) the system
\* is constructed with.
Configs == {<<1, 1, 1>>, <<2, 1, 1>>}
WideConfigs == {<<1, 1, 1>>, <<2, 1, 1>>, <<2, 2, 1>>, <<1, 2, 1>>}

\* Any command on any room in any interleaving with ticks, cooling
\* requests, a time slice of one second.
Init ==
    /\ \E c \in Configs : Constructed(c[1], c[2], c[3])
    /\ Horizon(MaxOps, MaxTicks)

\* The same with longer runs and more configurations.
InitWide ==
    /\ \E c \in WideConfigs : Constructed(c[1], c[2], c[3])
    /\ Horizon(WideOps, WideTicks)

Next ==
    \/ \E room_id \in Rooms, t \in PowerOnTemps : PowerOn(room_id, t, "cool")
    \/ \E room_id \in Rooms : PowerOff(room_id)
    \/ \E room_id \in Rooms, speed \in FanSpeeds : AdjustWindSpeed(room_id, speed)
    \/ \E room_id \in Rooms, t \in TargetTemps : AdjustTemperature(room_id, t)
    \/ Tick

Spec == Init /\ [][Next]_vars

SpecWide == InitWide /\ [][Next]_vars

\* The single-room cool-down: capacity 1, room 1 powered on at 30 degrees
\* for cooling before the first second, then one-second ticks only.
InitCool ==
    /\ Constructed(1, 1, 30)
    /\ Horizon(1, CoolTicks)

CoolDownPowerOn ==
    /\ clock = 0
    /\ PowerOn(1, 30 * Scale, "cool")

NextCool ==
    \/ CoolDownPowerOn
    \/ Tick

SpecCool == InitCool /\ [][NextCool]_vars

\* Short runs with a power-on temperature that has a fourth decimal
\* (25.0004) and with both modes.
FineTemps == PowerOnTemps \cup {25 * Scale + 4}

InitFine ==
    /\ \E c \in Configs : Constructed(c[1], c[2], c[3])
    /\ Horizon(FineOps, FineTicks)

NextFine ==
    \/ \E room_id \in Rooms, t \in FineTemps, mode \in Modes : PowerOn(room_id, t, mode)
    \/ \E room_id \in Rooms : PowerOff(room_id)
    \/ \E room_id \in Rooms, speed \in FanSpeeds : AdjustWindSpeed(room_id, speed)
    \/ \E room_id \in Rooms, t \in TargetTemps : AdjustTemperature(room_id, t)
    \/ Tick

SpecFine == InitFine /\ [][NextFine]_vars

\* The drift of a paused room back to its resume threshold: capacity 1 and
\* a waiting queue of 1, power-on requests in the first two seconds, then
\* one-second ticks only (a room paused in second 1 resumes in second 121).
InitResume ==
    /\ Constructed(1, 1, 1)
    /\ Horizon(ResumeOps, ResumeTicks)

EarlyPowerOn ==
    /\ clock <= 1
    /\ \E room_id \in Rooms, t \in PowerOnTemps : PowerOn(room_id, t, "cool")

NextResume ==
    \/ EarlyPowerOn
    \/ Tick

SpecResume == InitResume /\ [][NextResume]_vars

\* The first minute: a power-on request in any second of it, at 30.0, 25.01
\* or 30.04 degrees, and one-second ticks up to the minute alignment.
MinuteTemps == PowerOnTemps \cup {30 * Scale + 400}

InitMinute ==
    /\ Constructed(1, 1, 1)
    /\ Horizon(MinuteOps, MinuteTicks)

MinutePowerOn == \E room_id \in Rooms, t \in MinuteTemps : PowerOn(room_id, t, "cool")

NextMinute ==
    \/ MinutePowerOn
    \/ Tick

SpecMinute == InitMinute /\ [][NextMinute]_vars

\* The requests of Spec with the queue-position query between them.
NextQuery ==
    \/ Next
    \/ \E room_id \in Rooms : RequestNumberServiceNumber(room_id)

SpecQuery == Init /\ [][NextQuery]_vars

\* A ServedQueue on its own under a fixed sort callback: every room has a
\* fan speed and a service time that do not change, the queue starts empty
\* and rooms are pushed in any order. The queue never looks at a room's
\* number, so the rooms are numbered by ascending fan speed and service
\* time.
InitQueue ==
    /\ served_capacity \in {2, NumRooms}
    /\ waiting_capacity = 1
    /\ time_slice = 1
    /\ \E speed \in [1..NumRooms -> FanSpeeds] :
           rooms = [i \in 1..NumRooms |-> [Room(i) EXCEPT !.fan_speed = speed[i]]]
    /\ service_timer \in [Rooms -> 0..MaxServiceTime]
    /\ \A i, j \in Rooms :
           i < j => \/ rooms[i].fan_speed < rooms[j].fan_speed
                    \/ /\ rooms[i].fan_speed = rooms[j].fan_speed
                       /\ service_timer[i] <= service_timer[j]
    /\ served = <<>>
    /\ waiting = <<>>
    /\ wait_timer = EmptyMap
    /\ records = <<>>
    /\ current_record_ids = EmptyMap
    /\ accumulated_seconds = 0
    /\ minute_start_temps = EmptyMap
    /\ nops = 0
    /\ clock = 0
    /\ last = NoTrace
    /\ tick_frame = NoFrame
    /\ Horizon(0, 0)

QueuePush(room_id) ==
    /\ Becomes(ServedPush(Begin("push", room_id), room_id))
    /\ UNCHANGED <<nops, clock>>

NextQueue == \E room_id \in Rooms : QueuePush(room_id)

SpecQueue == InitQueue /\ [][NextQueue]_vars

\* Request handlers on threads of their own, as the development server
\* runs them, and a scheduler without a lock: a tick is three steps (the
\* timers and before_states; the engine and the alignment; the rebalance)
\* and the other handlers run before, between and after them.
InitThreads ==
    /\ \E c \in Configs : Constructed(c[1], c[2], c[3])
    /\ Horizon(ThreadOps, ThreadTicks)

Ticking == tick_frame.pc # "idle"

\* A call made while a tick is under way is noted in the tick's frame.
NoteCall(op, room_id, arg) ==
    tick_frame' = IF Ticking
                  THEN [tick_frame EXCEPT
                           !.calls = Append(@, [op |-> op, room |-> room_id,
                                                arg |-> arg])]
                  ELSE tick_frame

ThreadPowerOn(room_id, current_room_temp) ==
    /\ nops < max_ops
    /\ Settles(power_on(BeginWith("power_on", room_id, current_room_temp),
                        room_id, current_room_temp, "cool"))
    /\ NoteCall("power_on", room_id, current_room_temp)
    /\ nops' = nops + 1
    /\ UNCHANGED clock

ThreadPowerOff(room_id) ==
    /\ nops < max_ops
    /\ \E T \in power_off(Begin("power_off", room_id), room_id) : Settles(T)
    /\ NoteCall("power_off", room_id, 0)
    /\ nops' = nops + 1
    /\ UNCHANGED clock

ThreadAdjustWindSpeed(room_id, new_speed) ==
    /\ nops < max_ops
    /\ Settles(adjust_wind_speed(BeginWith("adjust_wind_speed", room_id, new_speed),
                                 room_id, new_speed))
    /\ NoteCall("adjust_wind_speed", room_id, new_speed)
    /\ nops' = nops + 1
    /\ UNCHANGED clock

ThreadAdjustTemperature(room_id, new_target_temp) ==
    /\ nops < max_ops
    /\ Settles(adjust_temperature(
                   BeginWith("adjust_temperature", room_id, new_target_temp),
                   room_id, new_target_temp))
    /\ NoteCall("adjust_temperature", room_id, new_target_temp)
    /\ nops' = nops + 1
    /\ UNCHANGED clock

TickTimers ==
    /\ ~Ticking
    /\ clock < max_ticks
    /\ Settles(TimerPhase(Begin("tick_timers", 0)))
    /\ tick_frame' = [pc |-> "engine",
                      before_states |-> BeforeStates(TimerPhase(State)),
                      start |-> <<State>>,
                      calls |-> <<>>]
    /\ UNCHANGED <<nops, clock>>

TickEngine ==
    /\ tick_frame.pc = "engine"
    /\ \E T \in EnginePhase(Begin("tick_engine", 0)) : Settles(T)
    /\ tick_frame' = [tick_frame EXCEPT !.pc = "rebalance"]
    /\ UNCHANGED <<nops, clock>>

TickRebalance ==
    /\ tick_frame.pc = "rebalance"
    /\ \E T \in RebalancePhase(Begin("tick", 0), tick_frame.before_states) :
           Settles(T)
    /\ tick_frame' = [tick_frame EXCEPT !.pc = "idle"]
    /\ clock' = clock + 1
    /\ UNCHANGED nops

NextThreads ==
    \/ \E room_id \in Rooms, t \in PowerOnTemps : ThreadPowerOn(room_id, t)
    \/ \E room_id \in Rooms : ThreadPowerOff(room_id)
    \/ \E room_id \in Rooms, speed \in FanSpeeds : ThreadAdjustWindSpeed(room_id, speed)
    \/ \E room_id \in Rooms, t \in TargetTemps : ThreadAdjustTemperature(room_id, t)
    \/ TickTimers
    \/ TickEngine
    \/ TickRebalance

SpecThreads == InitThreads /\ [][NextThreads]_vars

\* Four rooms for two serving slots and three waiting slots, time slice 1:
\* the rooms are switched on in the order of their numbers, rooms that are
\* on lower their fan speed, a second passes.
InitSlice ==
    /\ ConstructedWith(SliceRooms, 2, 3, 1)
    /\ Horizon(SliceOps, SliceTicks)

SlicePowerOn(room_id) ==
    /\ rooms[room_id].state = "off"
    /\ \A q \in Rooms : q < room_id => rooms[q].state # "off"
    /\ PowerOn(room_id, 30 * Scale, "cool")

SliceLower(room_id) ==
    /\ rooms[room_id].state # "off"
    /\ rooms[room_id].fan_speed # LOW
    /\ AdjustWindSpeed(room_id, LOW)

NextSlice ==
    \/ \E room_id \in Rooms : SlicePowerOn(room_id)
    \/ \E room_id \in Rooms : SliceLower(room_id)
    \/ Tick

SpecSlice == InitSlice /\ [][NextSlice]_vars

\* One serving and one waiting slot, time slice 1: rooms are switched on
\* in the first second, at 30.0 or at 30.0004, and a minute passes.
FrozenTemps == {30 * Scale, 30 * Scale + 4}

InitFrozen ==
    /\ Constructed(1, 1, 1)
    /\ Horizon(FrozenOps, FrozenTicks)

FrozenPowerOn ==
    /\ clock <= 1
    /\ \E room_id \in Rooms, t \in FrozenTemps : PowerOn(room_id, t, "cool")

NextFrozen == FrozenPowerOn \/ Tick

SpecFrozen == InitFrozen /\ [][NextFrozen]_vars

\* One serving and two waiting slots, time slice 1: the rooms are switched
\* on in the order of their numbers, rooms that are on change their fan
\* speed, a second passes.
InitLower ==
    /\ Constructed(1, 2, 1)
    /\ Horizon(LowerOps, LowerTicks)

LowerAdjust(room_id, new_speed) ==
    /\ rooms[room_id].state # "off"
    /\ rooms[room_id].fan_speed # new_speed
    /\ AdjustWindSpeed(room_id, new_speed)

NextLower ==
    \/ \E room_id \in Rooms : SlicePowerOn(room_id)
    \/ \E room_id \in Rooms, speed \in FanSpeeds : LowerAdjust(room_id, speed)
    \/ Tick

SpecLower == InitLower /\ [][NextLower]_vars

\* Rooms of one fan speed compete for the serving slots: they are switched
\* on at 30.0 in the order of their numbers, at any second, and nothing
\* else is asked of them while the seconds pass; none comes near its
\* target in that time.
FairConfigs == {<<1, 1, 1>>, <<1, 2, 1>>, <<2, 1, 1>>, <<1, 2, 2>>}

InitFair ==
    /\ \E c \in FairConfigs : Constructed(c[1], c[2], c[3])
    /\ Horizon(FairOps, FairTicks)

NextFair ==
    \/ \E room_id \in Rooms : SlicePowerOn(room_id)
    \/ Tick

SpecFair == InitFair /\ [][NextFair]_vars

\* ------------------------------------------------- a room id not in rooms
\* A room id the repository does not hold: RoomRepository.get raises
\* KeyError for it (models.py line 76).
MissingRoom == NumRooms + 1

\* The handler is left by an exception: what it did so far stays.
Raised(S) == [S EXCEPT !.tr.ret = "KeyError"]

\* _sort_rooms calls the sort callback on every room of the queue, and the
\* callback looks each one up in the repository; list.sort leaves the list
\* as it was when the callback raises.
SortCallbackSucceeds(S, queue) == SeqSet(queue) \subseteq DOMAIN S.rooms

\* power_on for any room id. With a free slot the id is appended to the
\* serving queue (line 66) before anything looks the room up: the sort
\* inside push, or set_target on line 67, raises. With no free slot line 92
\* looks up the new room and line 95 every serving room.
PowerOnOrRaise(S, room_id, current_room_temp, mode) ==
    IF HasSlot(S)
    THEN Then(ServedPushUnsorted(S, room_id), LAMBDA S1 :
         IF S1.served # S.served /\ ~SortCallbackSucceeds(S1, S1.served)
         THEN Raised(S1)
         ELSE IF room_id \notin DOMAIN S.rooms
         THEN Raised(S1)
         ELSE power_on(S, room_id, current_room_temp, mode))
    ELSE IF room_id \notin DOMAIN S.rooms \/ ~SortCallbackSucceeds(S, S.served)
    THEN Raised(S)
    ELSE power_on(S, room_id, current_room_temp, mode)

\* _tick_one_second: the timers advance (lines 437-438), then the sort of
\* the serving queue on line 440 may raise.
TickOrRaise(S) ==
    IF SortCallbackSucceeds(S, S.served)
    THEN _tick_one_second(S)
    ELSE {Raised([S EXCEPT !.service_timer = TimerTick(@),
                           !.wait_timer = TimerTick(@)])}

\* power_off, adjust_wind_speed and adjust_temperature look the room up on
\* their first line (397, 157, 342).
MissingOperations == {"power_off", "adjust_wind_speed", "adjust_temperature"}

InitMissing ==
    /\ \E c \in Configs : Constructed(c[1], c[2], c[3])
    /\ Horizon(MissingOps, MissingTicks)

MissingPowerOn(room_id) ==
    /\ nops < max_ops
    /\ Becomes(PowerOnOrRaise(BeginWith("power_on", room_id, 30 * Scale),
                               room_id, 30 * Scale, "cool"))
    /\ nops' = nops + 1
    /\ UNCHANGED clock

MissingCall(op) ==
    /\ nops < max_ops
    /\ Becomes(Raised(Begin(op, MissingRoom)))
    /\ nops' = nops + 1
    /\ UNCHANGED clock

MissingTick ==
    /\ clock < max_ticks
    /\ \E T \in TickOrRaise(Begin("tick", 0)) : Becomes(T)
    /\ clock' = clock + 1
    /\ UNCHANGED nops

NextMissing ==
    \/ \E room_id \in Rooms \cup {MissingRoom} : MissingPowerOn(room_id)
    \/ \E op \in MissingOperations : MissingCall(op)
    \/ MissingTick

SpecMissing == InitMissing /\ [][NextMissing]_vars

\* ------------------------------------------------------ service to target
\* One room is switched on at any second of the first minute, half a degree
\* or four hundredths of a degree from the default target, on the side its
\* mode serves from; its fan speed may be changed at once; after that the
\* seconds pass and nothing more is asked.
ReachTemps(mode) ==
    IF mode = "cool"
    THEN {DEFAULT_TEMP + Scale \div 2, DEFAULT_TEMP + 400}
    ELSE {DEFAULT_TEMP - Scale \div 2, DEFAULT_TEMP - 400}

InitReach ==
    /\ ConstructedWith(ReachRooms, 1, 1, 1)
    /\ Horizon(ReachOps, ReachTicks)

ReachPowerOn ==
    /\ nops = 0
    /\ clock < ReachStart
    /\ \E mode \in Modes : \E t \in ReachTemps(mode) : PowerOn(1, t, mode)

ReachSpeed ==
    /\ last.op = "power_on"
    /\ \E speed \in FanSpeeds \ {rooms[1].fan_speed} : AdjustWindSpeed(1, speed)

NextReach ==
    \/ ReachPowerOn
    \/ ReachSpeed
    \/ Tick

SpecReach == InitReach /\ [][NextReach]_vars

\* Scheduler.tick runs _tick_one_second once for every second it is given,
\* and the seconds keep being given: a second that can pass does pass. The
\* steps that advance the clock are the steps of Tick, and
\* _tick_one_second has an outcome in every state, so that Tick can be
\* taken exactly when the clock can advance.
SecondPasses ==
    /\ clock < max_ticks
    /\ clock' = clock + 1

SpecReachFair == SpecReach /\ WF_clock(SecondPasses)

\* ================================================================ claims
StateOf(r) == rooms[r].state
InServed(r) == Contains(served, r)
InWaiting(r) == Contains(waiting, r)
Count(s, x) == Cardinality({i \in 1..Len(s) : s[i] = x})

\* C1: after every operation and every tick a room's state is serving iff
\* its id is in the serving queue, waiting iff its id is in the waiting
\* queue, and an off or paused room is in neither queue.
C1_StateMatchesQueues ==
    \A r \in Rooms :
        /\ StateOf(r) = "serving" <=> InServed(r)
        /\ StateOf(r) = "waiting" <=> InWaiting(r)
        /\ StateOf(r) \in {"off", "paused"} => ~InServed(r) /\ ~InWaiting(r)

\* C2: no room id is in both queues and no id occurs twice in a queue.
C2_AtMostOneQueue ==
    \A r \in Rooms :
        /\ ~(InServed(r) /\ InWaiting(r))
        /\ Count(served, r) <= 1
        /\ Count(waiting, r) <= 1

\* C3: the serving queue holds at most served_capacity ids and a bounded
\* waiting queue at most waiting_capacity ids.
C3_Capacities ==
    /\ Len(served) <= served_capacity
    /\ waiting_capacity # -1 => Len(waiting) <= waiting_capacity

C3_Witness ==
    /\ Len(served) = served_capacity
    /\ Len(waiting) = waiting_capacity
    /\ last.op = "power_on"
    /\ StateOf(last.room) = "waiting"
    /\ ~InWaiting(last.room)

\* C4: at every tick boundary the costs of a room's journal records sum to
\* the room's accumulated cost, within 0.01.
C4_JournalSumEqualsCost ==
    last.op = "tick" =>
        \A r \in Rooms : Abs(SumCost(records, r) - rooms[r].cost) <= Scale \div 100

\* A step that is power_on(r).
PowerOnStep(r) == nops' = nops + 1 /\ last'.op = "power_on" /\ last'.room = r

QueueFull == Len(served) >= served_capacity
LowerSpeedServed(r) ==
    {v \in SeqSet(served) : rooms[v].fan_speed < rooms[r].fan_speed}
Displaced == {v \in SeqSet(served) : ~Contains(served', v)}

\* C5: power_on of a room that is off, in a state where every room's state
\* agrees with the queues, with the serving queue full and a serving room
\* slower than the requester: one serving room leaves, it is
\* one of lowest fan speed and, among those, of longest time-in-service; it
\* loses its service timer and is in the waiting queue, waiting, with wait
\* timer 0; the requester is serving in its place.
C5_PowerOnPreempts ==
    [][\A r \in Rooms :
          (PowerOnStep(r) /\ StateOf(r) = "off" /\ C1_StateMatchesQueues
                          /\ QueueFull /\ LowerSpeedServed(r) # {}) =>
          \E v \in SeqSet(served) :
              /\ \A u \in SeqSet(served) :
                     \/ rooms[v].fan_speed < rooms[u].fan_speed
                     \/ /\ rooms[v].fan_speed = rooms[u].fan_speed
                        /\ GetServiceTime(State, u) <= GetServiceTime(State, v)
              /\ SeqSet(served') = (SeqSet(served) \ {v}) \cup {r}
              /\ Len(served') = Len(served)
              /\ v \notin DOMAIN service_timer'
              /\ Contains(waiting', v)
              /\ v \in DOMAIN wait_timer' /\ wait_timer'[v] = 0
              /\ rooms'[v].state = "waiting"
              /\ rooms'[r].state = "serving"]_vars

\* C6: power_on with the serving queue full and no serving room slower
\* than the requester leaves the serving queue as it is and the requester
\* waiting; and a room that power_on admits in the place of a serving room
\* has, when power_on returns, a fan speed above the displaced room's.
C6_EqualSpeedDoesNotPreempt ==
    [][\A r \in Rooms :
          PowerOnStep(r) =>
              /\ (QueueFull /\ LowerSpeedServed(r) = {}) =>
                     served' = served /\ rooms'[r].state = "waiting"
              /\ \A v \in Displaced :
                     Contains(served', r) =>
                         rooms'[r].fan_speed > rooms'[v].fan_speed]_vars

WaitingFull == waiting_capacity # -1 /\ Len(waiting) >= waiting_capacity

\* The waiting rooms of lowest fan speed and, among those, shortest wait.
LowestPriorityWaiting ==
    {x \in SeqSet(waiting) :
        \A y \in SeqSet(waiting) :
            ~KeyLess(SpeedWaitKey(State)[y], SpeedWaitKey(State)[x])}

\* C9: power_on of a room that is off, in a state where every room's state
\* agrees with the queues, with the serving queue and a bounded waiting
\* queue both full: the room that has to wait (the requester, or the
\* serving room it displaces) is in the waiting queue afterwards, and a
\* waiting room of lowest priority has left the queue and is paused.
C9_FullWaitingQueueEvicts ==
    [][\A r \in Rooms :
          (PowerOnStep(r) /\ StateOf(r) = "off" /\ C1_StateMatchesQueues
                          /\ QueueFull /\ WaitingFull /\ waiting # <<>>) =>
              /\ \A e \in (IF LowerSpeedServed(r) = {} THEN {r} ELSE Displaced) :
                     Contains(waiting', e)
              /\ \E x \in LowestPriorityWaiting :
                     ~Contains(waiting', x) /\ rooms'[x].state = "paused"]_vars

\* The queues as _time_slice_schedule found them in the last tick.
SnapServed == {last.snap.served[i] : i \in 1..Len(last.snap.served)}
SnapWaiting == {last.snap.waiting[i] : i \in 1..Len(last.snap.waiting)}

\* Rotation is due at speed s: a waiting room at s has waited a time slice
\* and a serving room has speed s.
SliceDue(s) ==
    /\ \E v \in SnapServed : v.speed = s
    /\ \E w \in SnapWaiting : w.speed = s /\ w.time >= time_slice

LongestAt(entries, s) ==
    {e \in entries : e.speed = s /\ \A f \in entries : f.speed = s => f.time <= e.time}

\* v has been rotated out and w rotated in.
Rotated(v, w) ==
    /\ InWaiting(v) /\ StateOf(v) = "waiting"
    /\ v \in DOMAIN wait_timer /\ wait_timer[v] = 0
    /\ v \notin DOMAIN service_timer
    /\ InServed(w) /\ StateOf(w) = "serving"
    /\ w \in DOMAIN service_timer /\ service_timer[w] = 0
    /\ w \notin DOMAIN wait_timer

SliceApplies ==
    /\ last.op = "tick"
    /\ Len(last.snap.served) >= served_capacity
    /\ \E s \in FanSpeeds : SliceDue(s)

\* C7: after a tick in which the serving queue was full and rotation was due
\* at some speed, at one such speed s the longest-serving room at s is
\* waiting (in the waiting queue, wait timer 0, no service timer) and the
\* longest-waiting room at s is serving (in the serving queue, service
\* timer 0, no wait timer).
C7_TimeSliceRotation ==
    SliceApplies =>
        \E s \in FanSpeeds :
            /\ SliceDue(s)
            /\ \E v \in LongestAt(SnapServed, s), w \in LongestAt(SnapWaiting, s) :
                   Rotated(v.room, w.room)

\* A step that is one tick.
TickStep == clock' = clock + 1

\* C8: a tick that starts in a state where every room's state agrees with
\* the queues ends with the serving queue full or the waiting queue empty.
C8_NoFreeSlotWhileWaiting ==
    [][(TickStep /\ C1_StateMatchesQueues) =>
          ~(Len(served') < served_capacity /\ waiting' # <<>>)]_vars

\* C10: a service-timer entry exists for a room iff the room is in the
\* serving queue, and a wait-timer entry iff it is in the waiting queue.
C10_TimersMatchQueues ==
    \A r \in Rooms :
        /\ r \in DOMAIN service_timer <=> InServed(r)
        /\ r \in DOMAIN wait_timer <=> InWaiting(r)

\* Adjacent rooms of a queue are in priority order: the earlier one has the
\* higher fan speed, or the same speed and at least as long a timer.
InOrder(q, time(_)) ==
    \A i \in 1..(Len(q) - 1) :
        \/ rooms[q[i]].fan_speed > rooms[q[i + 1]].fan_speed
        \/ /\ rooms[q[i]].fan_speed = rooms[q[i + 1]].fan_speed
           /\ time(q[i]) >= time(q[i + 1])

ServiceTimeOf(r) == GetServiceTime(State, r)
WaitTimeOf(r) == GetWaitTime(State, r)

\* C11: after every operation and every tick the serving queue is ordered
\* by fan speed (higher first) and, at equal speed, by time-in-service
\* (longer first), with the speeds and service timers of that moment.
C11_ServedQueueOrdered == InOrder(served, ServiceTimeOf)

WaitingOrdered == InOrder(waiting, WaitTimeOf)

\* C12: after every operation and every tick that starts in a state where
\* every room's state agrees with the queues, the waiting queue is ordered
\* by fan speed (higher first) and, at equal speed, by wait time (longer
\* first), with the speeds and wait timers of that moment.
C12_WaitingQueueOrdered ==
    [][C1_StateMatchesQueues => WaitingOrdered']_vars

\* C13: at the end of every tick no serving room is at its target
\* temperature; a serving room that reaches the target is paused within
\* the same tick.
C13_ServingNotAtTarget ==
    last.op = "tick" =>
        \A r \in Rooms :
            StateOf(r) = "serving" => rooms[r].current_temp # rooms[r].target_temp

\* C14: room 1 powered on at 30 degrees for cooling (target 25, medium fan)
\* and followed by 600 one-second ticks ends at 25.0 degrees, paused, with
\* an accumulated cost of 5.00.
C14_CoolDownIn600Ticks ==
    (nops = 1 /\ clock = CoolTicks) =>
        /\ rooms[1].current_temp = 25 * Scale
        /\ StateOf(1) = "paused"
        /\ rooms[1].cost = 5 * Scale

\* The journal records of room r that are open (end time null).
OpenRecords(r) ==
    {i \in 1..Len(records) : records[i].room_id = r /\ ~records[i].ended}

\* C15: when power_off(r) has returned, no journal record of room r is
\* open.
C15_PowerOffClosesJournal ==
    last.op = "power_off" => OpenRecords(last.room) = {}

\* C16: at every moment a room has at most one open journal record.
C16_OneOpenRecordPerRoom ==
    \A r \in Rooms : Cardinality(OpenRecords(r)) <= 1

\* Steps that are adjust_wind_speed(r) and adjust_temperature(r).
AdjustWindSpeedStep(r) ==
    nops' = nops + 1 /\ last'.op = "adjust_wind_speed" /\ last'.room = r
AdjustTemperatureStep(r) ==
    nops' = nops + 1 /\ last'.op = "adjust_temperature" /\ last'.room = r

NotQueued(r) == ~InServed(r) /\ ~InWaiting(r)

\* C17: adjust_wind_speed on a room that is off or paused and in neither
\* queue, and adjust_temperature on a room that is off, return the room's
\* state and leave the rooms (fan speed, target, state), both queues, both
\* timers and the journal as they were.
C17_InapplicableIsNoOp ==
    [][\A r \in Rooms :
          (\/ /\ AdjustWindSpeedStep(r)
              /\ NotQueued(r)
              /\ StateOf(r) \in {"off", "paused"}
           \/ /\ AdjustTemperatureStep(r)
              /\ NotQueued(r)
              /\ StateOf(r) = "off") =>
          /\ last'.ret = StateOf(r)
          /\ UNCHANGED <<rooms, served, waiting, service_timer, wait_timer,
                         records, current_record_ids>>]_vars

\* What power_on(r) with a free serving slot leaves behind, for the current
\* temperature temp: r in the serving queue and serving, target 25, medium
\* fan, service timer 0, a new open POWER_ON record that is tracked as the
\* room's current record, and "serving" returned.
AdmittedByPowerOn(r, temp) ==
    /\ Contains(served', r)
    /\ rooms'[r].state = "serving"
    /\ rooms'[r].target_temp = 25 * Scale
    /\ rooms'[r].fan_speed = MEDIUM
    /\ rooms'[r].current_temp = temp
    /\ r \in DOMAIN service_timer' /\ service_timer'[r] = 0
    /\ Len(records') = Len(records) + 1
    /\ records'[Len(records')] = [room_id |-> r, cost |-> 0, ended |-> FALSE,
                                  operation_type |-> "POWER_ON"]
    /\ r \in DOMAIN current_record_ids'
    /\ current_record_ids'[r] = Len(records')
    /\ last'.ret = "serving"

\* C18 as stated: power_on with a free serving slot admits the room as
\* above, with the current temperature equal to the supplied value.
C18_PowerOnFreeSlot_Stated ==
    [][\A r \in Rooms :
          (PowerOnStep(r) /\ Len(served) < served_capacity) =>
              AdmittedByPowerOn(r, last'.arg)]_vars

\* C18: power_on with a free serving slot admits the room as above, with
\* the current temperature equal to the supplied value rounded half-up to
\* three decimals.
C18_PowerOnFreeSlot ==
    [][\A r \in Rooms :
          (PowerOnStep(r) /\ Len(served) < served_capacity) =>
              AdmittedByPowerOn(r, NormalizeTemp(last'.arg))]_vars

C18_Witness ==
    /\ last.op = "power_on"
    /\ last.ret = "serving"
    /\ last.victim = 0
    /\ last.arg = 25 * Scale + 4
    /\ rooms[last.room].current_temp = 25 * Scale
    /\ rooms[last.room].fan_speed = MEDIUM
    /\ InServed(last.room)

\* A step that is power_off(r).
PowerOffStep(r) == nops' = nops + 1 /\ last'.op = "power_off" /\ last'.room = r

\* Room q's state, queue membership and timers are the same before and
\* after the step.
Untouched(q) ==
    /\ rooms'[q].state = rooms[q].state
    /\ Contains(served', q) <=> Contains(served, q)
    /\ Contains(waiting', q) <=> Contains(waiting, q)
    /\ q \in DOMAIN service_timer' <=> q \in DOMAIN service_timer
    /\ q \in DOMAIN service_timer => service_timer'[q] = service_timer[q]
    /\ q \in DOMAIN wait_timer' <=> q \in DOMAIN wait_timer
    /\ q \in DOMAIN wait_timer => wait_timer'[q] = wait_timer[q]

\* What power_off(r) leaves behind: r off, in neither queue, without a
\* service timer and without a wait timer, every other room untouched.
SwitchedOff(r) ==
    /\ rooms'[r].state = "off"
    /\ ~Contains(served', r)
    /\ ~Contains(waiting', r)
    /\ r \notin DOMAIN service_timer'
    /\ r \notin DOMAIN wait_timer'
    /\ \A q \in Rooms \ {r} : Untouched(q)

\* C19: power_off(r) from any state leaves r off, in neither queue and
\* without timers, and every other room's state, queue membership and
\* timers as they were.
C19_PowerOffFrame ==
    [][\A r \in Rooms : PowerOffStep(r) => SwitchedOff(r)]_vars

\* The serving rooms slower than the given speed.
ServedBelow(speed) == {v \in SeqSet(served) : rooms[v].fan_speed < speed}

\* v is, among the rooms of vs, one of lowest fan speed and, among those,
\* of longest time-in-service.
IsVictimAmong(v, vs) ==
    /\ v \in vs
    /\ \A u \in vs :
           \/ rooms[v].fan_speed < rooms[u].fan_speed
           \/ /\ rooms[v].fan_speed = rooms[u].fan_speed
              /\ ServiceTimeOf(u) <= ServiceTimeOf(v)

\* The step has swapped serving room v for waiting room r.
Swapped(v, r) ==
    /\ SeqSet(served') = (SeqSet(served) \ {v}) \cup {r}
    /\ rooms'[v].state = "waiting"
    /\ Contains(waiting', v)
    /\ rooms'[r].state = "serving"
    /\ ~Contains(waiting', r)
    /\ r \in DOMAIN service_timer' /\ service_timer'[r] = 0
    /\ r \notin DOMAIN wait_timer'

\* C20: adjust_wind_speed on a room of the waiting queue stores the new
\* speed; if another room that is serving is slower than the new speed,
\* the slowest and then longest-serving of them is demoted to waiting and
\* the requester serves in its place with service timer 0 and no wait
\* timer; otherwise the serving queue is unchanged and a raised speed has
\* reset the requester's wait timer to 0.
C20_WaitingSpeedChange ==
    [][\A r \in Rooms :
          (AdjustWindSpeedStep(r) /\ InWaiting(r)) =>
              /\ rooms'[r].fan_speed = last'.arg
              /\ IF ServedBelow(last'.arg) \ {r} # {}
                 THEN \E v \in ServedBelow(last'.arg) \ {r} :
                          /\ IsVictimAmong(v, ServedBelow(last'.arg) \ {r})
                          /\ Swapped(v, r)
                 ELSE /\ served' = served
                      /\ last'.arg > rooms[r].fan_speed =>
                             r \in DOMAIN wait_timer' /\ wait_timer'[r] = 0]_vars

\* What adjust_temperature(r) with a target leaves behind when it applies:
\* the target stored, one open TEMP_CHANGE record of r appended to the
\* journal and every earlier record as it was, and nothing else changed
\* (states, costs, other rooms, queues, timers, tracked record ids).
TargetChanged(r, target) ==
    /\ rooms' = [rooms EXCEPT ![r].target_temp = target]
    /\ records' = Append(records, [room_id |-> r, cost |-> 0, ended |-> FALSE,
                                   operation_type |-> "TEMP_CHANGE"])
    /\ UNCHANGED <<served, waiting, service_timer, wait_timer,
                   current_record_ids>>

\* C21: adjust_temperature on a room whose state is serving, waiting or
\* paused sets target_temp to the new value and appends one TEMP_CHANGE
\* record; the room's state and cost, both queues, both timers and the
\* tracked record ids stay as they were and no record is closed.
C21_ChangeTemperatureFrame ==
    [][\A r \in Rooms :
          (AdjustTemperatureStep(r)
               /\ StateOf(r) \in {"serving", "waiting", "paused"}) =>
              TargetChanged(r, last'.arg)]_vars

\* Paused room r reaches its resume threshold in the coming second: the
\* drift takes it to target + 1 (cooling) or target - 1 (heating), within
\* 0.001.
ResumeDue(r) ==
    /\ StateOf(r) = "paused"
    /\ LET dir == IF rooms[r].mode = "cool" THEN -1 ELSE 1
           moved == NormalizeTemp(NormalizeTemp(rooms[r].current_temp)
                                  - dir * DriftRatePerSec)
       IN dir * ((rooms[r].target_temp - dir * Scale) - moved)
              >= -threshold_tolerance

\* After the step r is waiting, in the waiting queue, with wait timer 0.
QueuedAfter(r) ==
    /\ rooms'[r].state = "waiting"
    /\ Contains(waiting', r)
    /\ r \in DOMAIN wait_timer' /\ wait_timer'[r] = 0

\* After the step r is serving, in the serving queue, with service timer 0
\* and no wait timer, and the step has opened a QUEUE_FILL record for it.
FilledAfter(r) ==
    /\ rooms'[r].state = "serving"
    /\ Contains(served', r)
    /\ ~Contains(waiting', r)
    /\ r \in DOMAIN service_timer' /\ service_timer'[r] = 0
    /\ r \notin DOMAIN wait_timer'
    /\ \E i \in (Len(records) + 1)..Len(records') :
           records'[i] = [room_id |-> r, cost |-> 0, ended |-> FALSE,
                          operation_type |-> "QUEUE_FILL"]

\* The rotation of the same tick has put r out of a full waiting queue.
EvictedAfter(r) ==
    /\ last'.evicted = r
    /\ rooms'[r].state = "paused"
    /\ ~Contains(waiting', r)

\* C22: a paused room that reaches its resume threshold in a tick enters
\* the waiting queue, waiting, with wait timer 0, so that the tick ends with
\* the room there, or promoted by the refill, or put out again by the
\* rotation of a full waiting queue; when the serving queue has a free
\* slot the room is promoted: serving, in the serving queue, service timer
\* 0, no wait timer, a new open QUEUE_FILL record.
C22_PausedResumes ==
    [][\A r \in Rooms :
          (TickStep /\ ResumeDue(r)) =>
              /\ QueuedAfter(r) \/ FilledAfter(r) \/ EvictedAfter(r)
              /\ Len(served) < served_capacity => FilledAfter(r)]_vars

\* The serving room that power_on(y) would displace in scheduler state S
\* (0 when it displaces none).
WouldPreempt(S, y) ==
    power_on([S EXCEPT !.tr = NoTrace], y, rooms[y].current_temp, "cool").tr.victim

\* C23: when power_on(x) has displaced serving room y, power_on(y) on the
\* resulting queues does not displace x: neither with x at the fan speed it
\* requested with, nor with x at the speed power_on left it with.
C23_PreemptionAntisymmetric ==
    [][\A x \in Rooms :
          (PowerOnStep(x) /\ last'.victim # 0) =>
              /\ WouldPreempt(State', last'.victim) # x
              /\ WouldPreempt([State' EXCEPT !.rooms[x].fan_speed =
                                                rooms[x].fan_speed],
                              last'.victim) # x]_vars

\* power_on(x) has just displaced a slower room, which is now waiting, and
\* power_on of that room would displace nobody.
C23_Witness ==
    /\ last.op = "power_on"
    /\ last.victim # 0
    /\ InServed(last.room)
    /\ InWaiting(last.victim)
    /\ rooms[last.victim].fan_speed < MEDIUM
    /\ WouldPreempt(State, last.victim) = 0

\* Room r serves when the tick starts or when it ends.
ServedInTick(r) ==
    \/ StateOf(r) = "serving"
    \/ rooms'[r].state = "serving"

\* The tick closes a minute.
MinuteCloses == accumulated_seconds' = 0

C25_CostNeverNegative == \A r \in Rooms : rooms[r].cost >= 0

\* The tick that has just ended is the 60th, 120th, ... since construction.
AfterMinuteTick == last.op = "tick" /\ clock > 0 /\ clock % 60 = 0

\* C26: after every 60th one-second tick every room's current temperature
\* is a multiple of 0.1 and every room's accumulated cost a multiple of
\* 0.01.
C26_MinuteAlignmentRounds ==
    AfterMinuteTick =>
        \A r \in Rooms :
            /\ rooms[r].current_temp % (Scale \div 10) = 0
            /\ rooms[r].cost % (Scale \div 100) = 0

\* Room 1 has served the whole first minute from 30.0 degrees: 29.52 has
\* become 29.5 and the cost 0.48 has become 0.50.
C26_Witness ==
    /\ AfterMinuteTick
    /\ clock = 60
    /\ StateOf(1) = "serving"
    /\ rooms[1].current_temp = 29 * Scale + 5000
    /\ rooms[1].cost = 5000

\* C27: request_number_service_number on a room of the waiting queue
\* returns state "wait" and a list_number equal to the room's 1-based index
\* in the waiting order (1 for the head); on a room that is not in the
\* waiting queue it returns the room's state and no list_number.
C27_QueuePositionOneBased ==
    last.op = "request_number_service_number" =>
        IF InWaiting(last.room)
        THEN last.ret = "wait" /\ last.number = IndexOf(waiting, last.room)
        ELSE last.ret = StateOf(last.room) /\ last.number = 0

\* The orders in which the rooms of a set can be pushed.
Orders(set) ==
    {o \in [1..Cardinality(set) -> set] :
        \A i, j \in 1..Cardinality(set) : i # j => o[i] # o[j]}

\* The serving queue after the rooms of order are pushed, one by one, into
\* an empty queue.
RECURSIVE PushAll(_, _)
PushAll(S, order) ==
    IF order = <<>> THEN S.served
    ELSE PushAll(ServedPush(S, Head(order)), Tail(order))

Pushed(order) == PushAll([State EXCEPT !.served = <<>>], order)

SameKey(a, b) == ServedSortKey(State)[a] = ServedSortKey(State)[b]

\* queue, the rooms of order pushed one by one, is sorted, holds the rooms
\* of the queue there is, keeps rooms of the same fan speed and service
\* time in the order of their pushes, and is the queue there is when no two
\* rooms share both.
SortedUpToTies(order, queue) ==
    /\ InOrder(queue, ServiceTimeOf)
    /\ SeqSet(queue) = SeqSet(served)
    /\ \A i, j \in 1..Len(order) :
           (i < j /\ SameKey(order[i], order[j])) =>
               IndexOf(queue, order[i]) < IndexOf(queue, order[j])
    /\ (\A a, b \in SeqSet(served) : SameKey(a, b) => a = b) =>
           queue = served

\* C28 as stated: the pushed rooms are in the queue by fan speed descending
\* and, at equal speed, by service time descending, and every push order
\* of the same rooms gives the queue there is.
C28_PushOrderIndependent_Stated ==
    last.op = "push" =>
        /\ InOrder(served, ServiceTimeOf)
        /\ \A order \in Orders(SeqSet(served)) : Pushed(order) = served

\* C28: the pushed rooms are in the queue by fan speed descending and, at
\* equal speed, by service time descending; rooms with the same fan speed
\* and the same service time are in the order they were pushed; so every
\* push order of the same rooms gives the same queue when no two of them
\* share both.
C28_PushOrderUpToTies ==
    last.op = "push" =>
        /\ InOrder(served, ServiceTimeOf)
        /\ \E order \in Orders(SeqSet(served)) : Pushed(order) = served
        /\ \A order \in Orders(SeqSet(served)) :
               SortedUpToTies(order, Pushed(order))

\* Three rooms are in the queue, two of them with the same fan speed and
\* service time and the larger id first, behind a faster room that was not
\* pushed first.
C28_Witness ==
    /\ last.op = "push"
    /\ Len(served) = 3
    /\ rooms[served[1]].fan_speed > rooms[served[2]].fan_speed
    /\ SameKey(served[2], served[3])
    /\ served[2] > served[3]

\* What a call does to the scheduler when it runs alone.
Apply(S, call) ==
    CASE call.op = "tick" -> _tick_one_second(S)
      [] call.op = "power_on" -> {power_on(S, call.room, call.arg, "cool")}
      [] call.op = "power_off" -> power_off(S, call.room)
      [] call.op = "adjust_wind_speed" -> {adjust_wind_speed(S, call.room, call.arg)}
      [] OTHER -> {adjust_temperature(S, call.room, call.arg)}

RECURSIVE RunSerial(_, _, _)
RunSerial(SS, calls, order) ==
    IF order = <<>> THEN SS
    ELSE RunSerial(UNION {Apply(S, calls[Head(order)]) : S \in SS}, calls,
                   Tail(order))

\* The schedulers that the calls, one after the other in some order, can
\* leave behind when they start from S.
SerialOutcomes(S, calls) ==
    UNION {{[T EXCEPT !.tr = NoTrace] : T \in RunSerial({S}, calls, order)} :
               order \in Orders(1..Len(calls))}

\* C29: when a tick returns, the scheduler is in a state that the tick and
\* the calls made while it was under way, run one after the other in some
\* order from the state the tick started in, can leave behind.
C29_TickIsAtomic ==
    (last.op = "tick" /\ tick_frame.start # <<>>) =>
        State \in SerialOutcomes(tick_frame.start[1],
                                 <<[op |-> "tick", room |-> 0, arg |-> 0]>>
                                     \o tick_frame.calls)

\* C30: after every request and every tick, each room that is serving in
\* the serving queue is mapped by current_record_ids to a journal record of
\* that room that is still open.
C30_ServingRoomHasOpenRecord ==
    \A r \in Rooms :
        (InServed(r) /\ StateOf(r) = "serving") =>
            /\ r \in DOMAIN current_record_ids
            /\ current_record_ids[r] \in OpenRecords(r)

\* Room r serves when the tick starts and the engine pauses it.
PausedByEngine(r) ==
    TickStep /\ StateOf(r) = "serving" /\ rooms'[r].state = "paused"

\* C31: when a tick's engine has moved a serving room to paused, the tick
\* ends with the room out of the serving queue, without a service timer,
\* with the record it was tracked by ended and no record of it open, and
\* with the room no longer in current_record_ids.
C31_PausedLeavesService ==
    [][\A r \in Rooms :
          PausedByEngine(r) =>
              /\ ~Contains(served', r)
              /\ r \notin DOMAIN service_timer'
              /\ r \notin DOMAIN current_record_ids'
              /\ r \in DOMAIN current_record_ids =>
                     records'[current_record_ids[r]].ended
              /\ \A i \in 1..Len(records') :
                     records'[i].room_id = r => records'[i].ended]_vars

\* Room r is in the serving queue, serving, tracked by an open record of
\* its own.
ServingTracked(r) ==
    /\ InServed(r)
    /\ StateOf(r) = "serving"
    /\ r \in DOMAIN current_record_ids
    /\ current_record_ids[r] \in OpenRecords(r)

\* C32: adjust_wind_speed to another speed on a room of the serving queue
\* that is tracked by an open record: the room has the new speed, the
\* serving queue is in order, the tracked record is ended with the cost it
\* had, the journal has one record more, a SPEED_CHANGE record of the room
\* that is open and tracked, and a raise leaves the set of serving rooms
\* as it was.
C32_ServingSpeedChange ==
    [][\A r \in Rooms :
          (/\ AdjustWindSpeedStep(r)
           /\ ServingTracked(r)
           /\ last'.arg # rooms[r].fan_speed) =>
              /\ rooms'[r].fan_speed = last'.arg
              /\ C11_ServedQueueOrdered'
              /\ records'[current_record_ids[r]] =
                     [records[current_record_ids[r]] EXCEPT !.ended = TRUE]
              /\ Len(records') = Len(records) + 1
              /\ records'[Len(records')] =
                     [cost |-> 0, room_id |-> r,
                      operation_type |-> "SPEED_CHANGE", ended |-> FALSE]
              /\ r \in DOMAIN current_record_ids'
              /\ current_record_ids'[r] = Len(records')
              /\ last'.arg > rooms[r].fan_speed =>
                     SeqSet(served') = SeqSet(served)]_vars

\* The rooms that the step moves from the serving queue to the waiting
\* queue.
Demoted ==
    {r \in Rooms : InServed(r) /\ ~Contains(served', r) /\ Contains(waiting', r)}

\* C33: a tick moves at most one room from the serving queue to the
\* waiting queue.
C33_OneRotationPerTick ==
    [][TickStep => Cardinality(Demoted) <= 1]_vars

\* The speeds at which, when the tick's rotation started, a room served and
\* a room had waited for a time slice.
EligibleSpeeds ==
    {speed \in FanSpeeds :
        /\ \E i \in 1..Len(last.snap.served) : last.snap.served[i].speed = speed
        /\ \E i \in 1..Len(last.snap.waiting) :
               /\ last.snap.waiting[i].speed = speed
               /\ last.snap.waiting[i].time >= time_slice}

\* A tick has rotated at one fan speed when two speeds had a waiting room
\* that was due, with no room in both queues.
C33_Witness ==
    /\ last.op = "tick"
    /\ last.victim # 0
    /\ InWaiting(last.victim)
    /\ InServed(last.selected)
    /\ Cardinality(EligibleSpeeds) >= 2
    /\ \A i \in 1..Len(last.snap.served), j \in 1..Len(last.snap.waiting) :
           last.snap.served[i].room # last.snap.waiting[j].room

SpeedAfter(q, r, new_speed) == IF q = r THEN new_speed ELSE rooms[q].fan_speed

\* The serving rooms of lowest priority then: lowest speed and, among those,
\* shortest service time.
LowestServedAfter(r, new_speed) ==
    {v \in SeqSet(served) :
        \A q \in SeqSet(served) :
            \/ SpeedAfter(v, r, new_speed) < SpeedAfter(q, r, new_speed)
            \/ /\ SpeedAfter(v, r, new_speed) = SpeedAfter(q, r, new_speed)
               /\ ServiceTimeOf(v) <= ServiceTimeOf(q)}

\* The waiting rooms that are faster than those and have waited a time
\* slice.
FasterWaitedAfter(r, new_speed) ==
    {w \in SeqSet(waiting) :
        /\ WaitTimeOf(w) >= time_slice
        /\ \A v \in LowestServedAfter(r, new_speed) :
               rooms[w].fan_speed > SpeedAfter(v, r, new_speed)}

\* C35: adjust_wind_speed lowers the speed of a serving room, in a state
\* where every room's state agrees with the queues and the serving queue is
\* full; when a waiting room that has waited a time slice is faster than
\* the serving rooms of lowest priority, such a waiting room is in the
\* serving queue afterwards and one of those serving rooms is not.
C35_LoweredSpeedAdmitsFaster ==
    [][\A r \in Rooms :
          (/\ AdjustWindSpeedStep(r)
           /\ C1_StateMatchesQueues
           /\ InServed(r)
           /\ last'.arg < rooms[r].fan_speed
           /\ QueueFull
           /\ FasterWaitedAfter(r, last'.arg) # {}) =>
              /\ \E w \in FasterWaitedAfter(r, last'.arg) : Contains(served', w)
              /\ \E v \in LowestServedAfter(r, last'.arg) : ~Contains(served', v)]_vars

\* C36: when a tick has ended no waiting room is faster than a serving
\* room.
C36_NoPriorityInversion ==
    last.op = "tick" =>
        \A w \in SeqSet(waiting), v \in SeqSet(served) :
            rooms[w].fan_speed <= rooms[v].fan_speed

\* The step is a tick or an adjust_wind_speed in which a serving room and a
\* waiting room changed places.
SwapStep ==
    /\ last'.op \in {"tick", "adjust_wind_speed"}
    /\ last'.victim # 0
    /\ last'.selected # 0

\* C37: a rotation or a preemption by a waiting room that raised its speed,
\* from a state where every room's state agrees with the queues, leaves
\* every waiting room other than the admitted one (and other than a room
\* the tick's refill promoted) in the waiting queue and waiting.
C37_SwapTouchesTwoRooms ==
    [][(SwapStep /\ C1_StateMatchesQueues) =>
          \A q \in SeqSet(waiting) \ {last'.victim, last'.selected, last'.filled} :
              /\ Contains(waiting', q)
              /\ rooms'[q].state = "waiting"]_vars

\* The rooms that have asked for service.
Competing == {r \in Rooms : StateOf(r) # "off"}

\* C38: when rooms of one fan speed compete and none is switched off or
\* reaches its target, every one of them is serving in the serving queue or
\* waiting in the waiting queue, and none has waited longer than one time
\* slice for each competing room.
C38_SameSpeedFairness ==
    \A r \in Competing :
        /\ \/ StateOf(r) = "serving" /\ InServed(r)
           \/ StateOf(r) = "waiting" /\ InWaiting(r)
        /\ WaitTimeOf(r) <= time_slice * Cardinality(Competing)

\* C39: a call with a room id the system does not have fails with an error
\* and leaves the serving queue, the waiting queue, the timers and every
\* room as they were, and no call on a room the system has, and no tick,
\* fails.
C39_MissingRoomChangesNothing ==
    [][/\ last'.room = MissingRoom =>
              /\ last'.ret = "KeyError"
              /\ UNCHANGED <<served, waiting, service_timer, wait_timer, rooms>>
       /\ last'.room # MissingRoom => last'.ret # "KeyError"]_vars

\* How far room 1 is from its target.
Distance(r) ==
    IF r.current_temp >= r.target_temp
    THEN r.current_temp - r.target_temp
    ELSE r.target_temp - r.current_temp

PausedAtTarget ==
    /\ rooms[1].state = "paused"
    /\ rooms[1].current_temp = rooms[1].target_temp

====
